---- MODULE Spec2Model ----
(***************************************************************************)
(* The training console of src/static/js/main.js (the "Cleaned + optimized *)
(* main.js" that starts at line 743): the overlay narration sequencer      *)
(* (cancelOverlaySequence, typewriterLine, runOverlaySequence,             *)
(* showProcessingOverlay, showProcessingSuccess, hideProcessingOverlay)    *)
(* and the upload workflow that drives it (uploadAndIngest, runCrawl and   *)
(* the handlers of bindEvents).                                            *)
(*                                                                         *)
(* JavaScript runs each callback to completion, so one action is one       *)
(* synchronous segment: an entry point up to its first pending timer, or a *)
(* timer callback up to the next pending timer.  A continuation that waits *)
(* on an already settled promise (the return of typewriterLine, the return *)
(* of showProcessingSuccess into uploadAndIngest) runs as a microtask      *)
(* before any timer or event, so it belongs to the same action.  Timers of *)
(* different invocations may fire in any order: the delay of each pending  *)
(* timer is recorded in the field ms, the clock itself is not modelled.    *)
(* The requestAnimationFrame callback of line 1137 only adds the CSS class *)
(* "show" to a node and is left out; #processingOverlay is taken to exist. *)
(***************************************************************************)
EXTENDS Integers, Sequences, FiniteSets, TLC

VARIABLES
  overlayRunId,       \* let overlayRunId (main.js:839)
  overlayHidden,      \* processingOverlay has the class "hidden"
  container,          \* what ensureLinesContainer() returns: "lines", "sub", "none"
  processingLines,    \* child nodes of #processingLines, in document order
  processingSub,      \* child nodes of the legacy #processingSub
  runs,               \* in-flight runOverlaySequence / showProcessingSuccess calls
  selectedFiles,      \* let selectedFiles (main.js:828)
  selectedTrainType,  \* let selectedTrainType (main.js:842)
  disabled,           \* the state setDisabled() last gave the upload controls
  uploads,            \* in-flight uploadAndIngest calls
  crawling,           \* some runCrawl call is in flight
  progressTimer,      \* let progressTimer (main.js:832); 0 is null
  intervals,          \* the interval timers that are live
  eventsBound,        \* let eventsBound (main.js:829)
  clickListeners,     \* number of "click" listeners on #dropzone and on #fileInput
  inputInDropzone,    \* #fileInput is a descendant of #dropzone
  userClicks,         \* clicks the user has made on the dropzone or the file input
  pickerCalls,        \* calls of fileInput.click() made by the listeners so far
  probe               \* one call of a pure function: its argument and its result

seqVars == <<overlayRunId, overlayHidden, container, processingLines, processingSub, runs>>
pageVars == <<selectedFiles, selectedTrainType, disabled, uploads, crawling, progressTimer, intervals>>
bindVars == <<eventsBound, clickListeners, inputInDropzone, userClicks, pickerCalls>>
auxVars == <<eventsBound, clickListeners, inputInDropzone, userClicks, pickerCalls, probe>>
vars == <<overlayRunId, overlayHidden, container, processingLines, processingSub, runs,
          selectedFiles, selectedTrainType, disabled, uploads, crawling, progressTimer, intervals,
          eventsBound, clickListeners, inputInDropzone, userClicks, pickerCalls, probe>>

(***************************************************************************)
(* Bounds.                                                                 *)
(***************************************************************************)
\* number of narration lines of the queue that are modelled
NumLines == 2
\* each modelled line is the last MaxLineLen characters of its source line
MaxLineLen == 2
\* cap of the run identity counter in the guards of the entry points
MaxRunId == 4
\* the largest count hint passed to showProcessingOverlay
MaxCount == 6
\* the largest number of files whose inter-line gap is computed on its own
MaxFiles == 60
\* the number of clicks on the dropzone or the file input that are followed
MaxClicks == 10
\* count hints are the fractions n/d with n up to MaxHint and d up to MaxDen
MaxHint == 14
MaxDen == 4

(***************************************************************************)
(* Program constants.                                                      *)
(***************************************************************************)
LINE_TYPE_SPEED_MS == 60
LINE_GAP_BASE_MS == 210
LINE_FADE_MS == 350
\* the cap of Math.min(1200, ...) in runOverlaySequence
MAX_GAP_MS == 1200
\* await sleep(240) in showProcessingSuccess
SETTLE_MS == 240
\* the factor of LINE_TYPE_SPEED_MS * 3 in typewriterLine
PUNCT_FACTOR == 3

Min(a, b) == IF a < b THEN a ELSE b
Max(a, b) == IF a > b THEN a ELSE b

\* The tails (last four characters) of the seven strings of OVERLAY_LINES.
LINE_TAILS ==
  << <<"o", "n", "g", "!">>,
     <<"u", "f", "f", "!">>,
     <<"t", "e", "r", ".">>,
     <<"e", "n", "s", "!">>,
     <<"e", "r", "e", "!">>,
     <<"d", "g", "e", ".">>,
     <<"o", "n", " ", "!">> >>

\* The tail of the completion message of showProcessingSuccess.
MSG_TAIL == <<"l", "e", "s", ".">>

LastChars(s, n) == SubSeq(s, Len(s) - Min(n, Len(s)) + 1, Len(s))

\* The line queue, cut to NumLines lines of at most MaxLineLen characters.
OVERLAY_LINES == [k \in 1..Min(NumLines, Len(LINE_TAILS)) |-> LastChars(LINE_TAILS[k], MaxLineLen)]

SUCCESS_MSG == LastChars(MSG_TAIL, MaxLineLen)

\* The count hints the entry point is called with.
CountHints == {0, 1, MaxCount}

(***************************************************************************)
(* The DOM of the narration container.  A child of a display node is a     *)
(* text node of one character or a caret <span>; both remember the run     *)
(* (and line) that created them.                                           *)
(***************************************************************************)
TextItem(ch, p) == [c |-> ch, by |-> p.runId, k |-> p.k, caret |-> FALSE]
CaretItem(p) == [c |-> "", by |-> p.runId, k |-> p.k, caret |-> TRUE]
IsCaretOf(it, p) == it.caret /\ it.by = p.runId /\ it.k = p.k

\* document.createElement("div") with class "status-line", not yet filled
NewNode(p) == [owner |-> p.runId, k |-> p.k, hide |-> FALSE, kids |-> <<>>]
IsNodeOf(n, r, k) == n.owner = r /\ n.k = k

\* The text a process is typing.
TextOf(p) == IF p.kind = "succ" THEN SUCCESS_MSG ELSE OVERLAY_LINES[p.k]

\* The children of the element typewriterLine writes to: the node of this
\* line, or the legacy container itself.  A node that was detached from the
\* document is never attached again, so its content is not kept.
ElKids(d, p) ==
  IF container = "sub" THEN d.S
  ELSE LET hit == SelectSeq(d.L, LAMBDA n: IsNodeOf(n, p.runId, p.k))
       IN IF Len(hit) = 0 THEN <<>> ELSE hit[1].kids

ElSet(d, p, kids) ==
  IF container = "sub" THEN [d EXCEPT !.S = kids]
  ELSE [d EXCEPT !.L = [j \in DOMAIN d.L |->
            IF IsNodeOf(d.L[j], p.runId, p.k) THEN [d.L[j] EXCEPT !.kids = kids] ELSE d.L[j]]]

\* caret.remove()
RemoveCaret(kids, p) == SelectSeq(kids, LAMBDA it: ~IsCaretOf(it, p))

\* the per-character delay without the extra for punctuation
CharDelayFlat(ch) == LINE_TYPE_SPEED_MS

\* const extra = ch === "." || ch === "!" || ch === "?" || ch === "," ? ... : 0
CharDelay(ch) ==
  LINE_TYPE_SPEED_MS +
    (IF ch \in {".", "!", "?", ","} THEN LINE_TYPE_SPEED_MS * PUNCT_FACTOR ELSE 0)

\* the gap without Math.min(1200, ...)
GapMsUncapped(filesCount) == LINE_GAP_BASE_MS * Max(1, filesCount)

\* const gapMs = Math.min(1200, LINE_GAP_BASE_MS * Math.max(1, Number(filesCount) || 1))
GapMs(filesCount) ==
  LET n == IF filesCount = 0 THEN 1 ELSE filesCount
      count == Max(1, n)
  IN Min(MAX_GAP_MS, LINE_GAP_BASE_MS * count)

\* A count hint as JavaScript sees it: no argument, NaN (also what Number()
\* makes of a string that is no number), Infinity, or the number n/d.
Hints ==
  {[kind |-> k, n |-> 0, d |-> 1] : k \in {"missing", "nan", "inf"}}
    \cup {[kind |-> "num", n |-> n, d |-> d] : n \in (-3)..MaxHint, d \in 1..MaxDen}

One == [kind |-> "num", n |-> 1, d |-> 1]

\* filesCount = 1 (line 1105) and Number(filesCount) || 1 (line 1115)
NumberOrOne(h) ==
  IF h.kind \in {"missing", "nan"} \/ (h.kind = "num" /\ h.n = 0) THEN One ELSE h

\* Math.max without its lower limit
AtLeastOneNot(x) == x

\* Math.max(1, x) (line 1115)
AtLeastOne(x) == IF x.kind = "num" /\ x.n < x.d THEN One ELSE x

\* Math.min(1200, LINE_GAP_BASE_MS * count) (line 1116), in ms as a fraction
CappedGap(x) ==
  IF x.kind = "inf" \/ LINE_GAP_BASE_MS * x.n > MAX_GAP_MS * x.d
  THEN [n |-> MAX_GAP_MS, d |-> 1]
  ELSE [n |-> LINE_GAP_BASE_MS * x.n, d |-> x.d]

\* lines 1105-1116 of runOverlaySequence for any count hint
GapOfHint(h) == CappedGap(AtLeastOne(NumberOrOne(h)))

RemoveAt(s, j) == SubSeq(s, 1, j - 1) \o SubSeq(s, j + 1, Len(s))

\* innerHTML = "" / textContent = "" of cancelOverlaySequence and runOverlaySequence
EmptyDom == [L |-> <<>>, S |-> <<>>]

\* What the caller of typewriterLine does when it returns: runOverlaySequence
\* sleeps the gap (line 1143), showProcessingSuccess the settle delay (line 1182).
AfterType(p) ==
  IF p.kind = "seq"
  THEN [p EXCEPT !.pc = "gap", !.ms = p.gapMs]
  ELSE [p EXCEPT !.pc = "settle", !.ms = SETTLE_MS]

\* typewriterLine without its run identity check
NeverSuperseded(p, cur) == FALSE

\* The run identity check of typewriterLine (line 1091).
Superseded(p, cur) == p.runId # cur

\* One pass through the head of the for loop of typewriterLine with i = p.i
\* (lines 1090-1102), up to the next sleep or to the return.
TypeLoop(d, p, cur) ==
  LET s == TextOf(p) IN
  IF p.i >= Len(s)
  THEN [d |-> ElSet(d, p, RemoveCaret(ElKids(d, p), p)), p |-> AfterType(p)]
  ELSE IF Superseded(p, cur)
  THEN [d |-> d, p |-> AfterType(p)]
  ELSE [d |-> ElSet(d, p, RemoveCaret(ElKids(d, p), p)
                            \o <<TextItem(s[p.i + 1], p), CaretItem(p)>>),
        p |-> [p EXCEPT !.pc = "char", !.i = p.i + 1, !.ms = CharDelay(s[p.i + 1])]]

\* typewriterLine(el, text, runId) up to its first sleep (lines 1082-1099).
TypewriterLine(d, p, cur) ==
  TypeLoop(ElSet(d, p, <<CaretItem(p)>>), [p EXCEPT !.i = 0], cur)

\* Lines 1131-1141: create and insert the node of line p.k, then type it.
NewLine(d, p, cur) ==
  IF container = "lines"
  THEN TypewriterLine([d EXCEPT !.L = Append(d.L, NewNode(p))],
                      [p EXCEPT !.currentNode = p.k], cur)
  ELSE TypewriterLine(d, p, cur)

\* the loop head without the fade: the next node is inserted at once
LoopHeadNoFade(d, p, cur) ==
  IF p.runId # cur THEN [d |-> d, p |-> [p EXCEPT !.pc = "done"]] ELSE NewLine(d, p, cur)

\* Lines 1121-1129: the head of the for loop of runOverlaySequence for line p.k.
LoopHead(d, p, cur) ==
  IF p.runId # cur
  THEN [d |-> d, p |-> [p EXCEPT !.pc = "done"]]
  ELSE IF container = "lines" /\ p.currentNode # 0
  THEN [d |-> [d EXCEPT !.L = [j \in DOMAIN d.L |->
                  IF IsNodeOf(d.L[j], p.runId, p.currentNode)
                  THEN [d.L[j] EXCEPT !.hide = TRUE] ELSE d.L[j]]],
        p |-> [p EXCEPT !.pc = "fade", !.ms = LINE_FADE_MS]]
  ELSE NewLine(d, p, cur)

\* Lines 1127-1141: the fade timer fired.
AfterFade(d, p, cur) ==
  NewLine([d EXCEPT !.L = SelectSeq(d.L, LAMBDA n: ~IsNodeOf(n, p.runId, p.currentNode))],
          [p EXCEPT !.currentNode = 0], cur)

\* a run that empties the container when its queue is exhausted
AfterGapClearing(d, p, cur) ==
  IF p.k >= Len(OVERLAY_LINES)
  THEN [d |-> EmptyDom, p |-> [p EXCEPT !.pc = "done"]]
  ELSE LoopHead(d, [p EXCEPT !.k = p.k + 1], cur)

\* a run that starts over with line 1 after the last line
AfterGapLooping(d, p, cur) ==
  LoopHead(d, [p EXCEPT !.k = (p.k % Len(OVERLAY_LINES)) + 1], cur)

\* Line 1143 resumed: the gap timer fired; next line, or the end of the queue.
AfterGap(d, p, cur) ==
  IF p.k >= Len(OVERLAY_LINES)
  THEN [d |-> d, p |-> [p EXCEPT !.pc = "done"]]
  ELSE LoopHead(d, [p EXCEPT !.k = p.k + 1], cur)

\* the loop of typewriterLine stepping by two
AfterCharSkipping(d, p, cur) == TypeLoop(d, [p EXCEPT !.i = p.i + 1], cur)

\* Line 1099 resumed: i++ and the loop head again.
AfterChar(d, p, cur) == TypeLoop(d, p, cur)

\* a run identity that is not incremented
NoBump(id) == id

\* overlayRunId++ of cancelOverlaySequence (line 1069), ++overlayRunId of
\* runOverlaySequence (line 1109)
Bump(id) == id + 1

\* cancelOverlaySequence that leaves the container as it is
KeptDom(d) == d

\* cancelOverlaySequence (lines 1068-1075): the container after it
CancelledDom(d) == EmptyDom

\* A finished invocation leaves the set of in-flight invocations.
Put(rs, j, p) == IF p.pc = "done" THEN RemoveAt(rs, j) ELSE [rs EXCEPT ![j] = p]

Dom == [L |-> processingLines, S |-> processingSub]

\* showProcessingOverlay(filesCount) (lines 1147-1161) with the synchronous
\* part of runOverlaySequence (lines 1105-1141): the state of the sequencer
\* after the call.
OverlayShown(filesCount) ==
  LET id1 == Bump(overlayRunId)
      d1 == CancelledDom(Dom)
  IN IF container = "none"
     THEN [id |-> id1, d |-> d1, runs |-> runs]
     ELSE LET runId == Bump(id1)
              p0 == [kind |-> "seq", runId |-> runId, pc |-> "new", k |-> 1, i |-> 0,
                     currentNode |-> 0, gapMs |-> GapMs(filesCount), ms |-> 0]
              res == LoopHead(EmptyDom, p0, runId)
          IN [id |-> runId, d |-> res.d,
              runs |-> IF res.p.pc = "done" THEN runs ELSE Append(runs, res.p)]

\* hideProcessingOverlay that toggles the class "hidden"
HiddenToggling(st) ==
  [id |-> Bump(st.id), d |-> CancelledDom(st.d), runs |-> st.runs, hidden |-> ~overlayHidden]

\* hideProcessingOverlay that does not call cancelOverlaySequence
HiddenNotCancelled(st) == [id |-> st.id, d |-> st.d, runs |-> st.runs, hidden |-> TRUE]

\* hideProcessingOverlay (lines 1195-1202) applied to a sequencer state.
Hidden(st) == [id |-> Bump(st.id), d |-> CancelledDom(st.d), runs |-> st.runs, hidden |-> TRUE]

\* showProcessingSuccess that does not call cancelOverlaySequence first
SuccessShownNotCancelling ==
  IF container = "none"
  THEN [ret |-> TRUE] @@ Hidden([id |-> overlayRunId, d |-> Dom, runs |-> runs])
  ELSE LET p0 == [kind |-> "succ", runId |-> overlayRunId, pc |-> "new", k |-> 0, i |-> 0,
                  currentNode |-> 0, gapMs |-> 0, ms |-> 0]
           res == NewLine(Dom, p0, overlayRunId)
       IN [ret |-> FALSE, id |-> overlayRunId, d |-> res.d, hidden |-> overlayHidden,
           runs |-> Append(runs, res.p)]

\* showProcessingSuccess up to its first sleep (lines 1163-1180); ret says
\* that it returned at line 1167.
SuccessShown ==
  LET id1 == Bump(overlayRunId)
      d1 == CancelledDom(Dom)
  IN IF container = "none"
     THEN [ret |-> TRUE] @@ Hidden([id |-> id1, d |-> d1, runs |-> runs])
     ELSE LET p0 == [kind |-> "succ", runId |-> id1, pc |-> "new", k |-> 0, i |-> 0,
                     currentNode |-> 0, gapMs |-> 0, ms |-> 0]
              res == NewLine(d1, p0, id1)
          IN [ret |-> FALSE, id |-> id1, d |-> res.d, hidden |-> overlayHidden,
              runs |-> Append(runs, res.p)]

(***************************************************************************)
(* The entry points of the sequencer, called by any client.                *)
(***************************************************************************)
\* start(count): showProcessingOverlay(filesCount)
ShowProcessingOverlay(filesCount) ==
  /\ overlayRunId + 2 <= MaxRunId
  /\ LET st == OverlayShown(filesCount) IN
       /\ overlayRunId' = st.id
       /\ processingLines' = st.d.L
       /\ processingSub' = st.d.S
       /\ runs' = st.runs
  /\ overlayHidden' = FALSE
  /\ UNCHANGED <<auxVars, container, pageVars>>

\* cancel() / hide(): hideProcessingOverlay()
HideProcessingOverlay ==
  /\ overlayRunId + 1 <= MaxRunId
  /\ LET st == Hidden([id |-> overlayRunId, d |-> Dom, runs |-> runs]) IN
       /\ overlayRunId' = st.id
       /\ processingLines' = st.d.L
       /\ processingSub' = st.d.S
       /\ overlayHidden' = st.hidden
  /\ UNCHANGED <<auxVars, container, runs, pageVars>>

\* succeed(): showProcessingSuccess() up to its first sleep
ShowProcessingSuccess ==
  /\ overlayRunId + 2 <= MaxRunId
  /\ LET st == SuccessShown IN
       /\ overlayRunId' = st.id
       /\ processingLines' = st.d.L
       /\ processingSub' = st.d.S
       /\ overlayHidden' = st.hidden
       /\ runs' = st.runs
  /\ UNCHANGED <<auxVars, container, pageVars>>

(***************************************************************************)
(* Timer callbacks: the continuation of invocation j after one sleep.      *)
(***************************************************************************)
Resume(j, res) ==
  /\ processingLines' = res.d.L
  /\ processingSub' = res.d.S
  /\ runs' = Put(runs, j, res.p)
  /\ UNCHANGED <<auxVars, overlayRunId, overlayHidden, container, pageVars>>

\* await sleep(LINE_TYPE_SPEED_MS + extra) resolved (line 1099)
CharTimer(j) ==
  /\ j \in 1..Len(runs)
  /\ runs[j].pc = "char"
  /\ Resume(j, AfterChar(Dom, runs[j], overlayRunId))

\* await sleep(gapMs) resolved (line 1143)
GapTimer(j) ==
  /\ j \in 1..Len(runs)
  /\ runs[j].pc = "gap"
  /\ Resume(j, AfterGap(Dom, runs[j], overlayRunId))

\* await sleep(LINE_FADE_MS) resolved (line 1126)
FadeTimer(j) ==
  /\ j \in 1..Len(runs)
  /\ runs[j].pc = "fade"
  /\ Resume(j, AfterFade(Dom, runs[j], overlayRunId))

\* The upload that awaits showProcessingSuccess call r goes on to its finally
\* block (lines 1349-1351) as soon as the call returns.
Awaits(u, r) == u.pc = "succ" /\ u.rid = r

\* await sleep(240) resolved (lines 1182-1187): clearFilesAfterSuccess,
\* hideProcessingOverlay, resetTrainingType, then the awaiting caller.
SettleTimer(j) ==
  /\ j \in 1..Len(runs)
  /\ runs[j].pc = "settle"
  /\ LET st == Hidden([id |-> overlayRunId, d |-> Dom, runs |-> RemoveAt(runs, j)]) IN
       /\ overlayRunId' = st.id
       /\ processingLines' = st.d.L
       /\ processingSub' = st.d.S
       /\ overlayHidden' = st.hidden
       /\ runs' = st.runs
  /\ selectedFiles' = <<>>
  /\ selectedTrainType' = ""
  /\ uploads' = SelectSeq(uploads, LAMBDA u: ~Awaits(u, runs[j].runId))
  /\ disabled' = IF \E n \in 1..Len(uploads): Awaits(uploads[n], runs[j].runId)
                 THEN FALSE ELSE disabled
  /\ UNCHANGED <<auxVars, container, crawling, progressTimer, intervals>>

(***************************************************************************)
(* The upload workflow.                                                    *)
(***************************************************************************)
\* File objects the user can pick or drop.  ext is the lower-cased suffix of
\* the name that the regular expression of isSupportedFile looks at.
FileA == [name |-> "a.pdf", ext |-> "pdf", size |-> 1, lastModified |-> 1, type |-> "application/pdf"]
FileX == [name |-> "x.exe", ext |-> "exe", size |-> 3, lastModified |-> 1, type |-> "application/octet-stream"]
FileUniverse == {FileA, FileX}

\* The FileList of one change or drop event.
FileLists == {<<f>> : f \in FileUniverse} \cup {<<FileX, FileA, FileA>>}

\* Two more File objects: the same file as FileA picked a second time (same
\* name, size and lastModified, no MIME type given), and a text file that
\* only its MIME type makes known.
FileA2 == [name |-> "a.pdf", ext |-> "pdf", size |-> 1, lastModified |-> 1, type |-> ""]
FileB == [name |-> "notes", ext |-> "", size |-> 2, lastModified |-> 2, type |-> "text/plain"]

\* The FileLists of the change and drop events of the file-list scenario.
DropLists ==
  {<<FileA>>, <<FileA2>>, <<FileB>>, <<FileX>>, <<FileX, FileB, FileA, FileA2, FileB>>}

\* A value of data-train-type on the dropdown items.
TrainTypes == {"herbal"}

\* isSupportedFile (lines 1215-1230)
isSupportedFile(file) ==
  \/ file.ext \in {"pdf", "doc", "docx", "txt"}
  \/ file.type \in {"application/pdf",
                    "application/vnd.openxmlformats-officedocument.wordprocessingml.document",
                    "text/plain"}

\* fileKey (lines 1232-1234)
fileKey(file) == <<file.name, file.size, file.lastModified>>

\* addFiles without the check against the keys already selected
PushAll(sel, incoming) == sel \o incoming

RECURSIVE PushNew(_, _)
\* the for loop of addFiles (lines 1243-1252)
PushNew(sel, incoming) ==
  IF incoming = <<>> THEN sel
  ELSE LET f == Head(incoming) IN
       IF \E n \in 1..Len(sel): fileKey(sel[n]) = fileKey(f)
       THEN PushNew(sel, Tail(incoming))
       ELSE PushNew(Append(sel, f), Tail(incoming))

\* addFiles(fileListLike) (lines 1236-1263), from the change handler of the
\* file input or the drop handler of the dropzone
AddFiles(fileListLike) ==
  /\ LET incoming == SelectSeq(fileListLike, isSupportedFile) IN
       selectedFiles' = IF incoming = <<>> THEN selectedFiles
                        ELSE PushNew(selectedFiles, incoming)
  /\ UNCHANGED <<auxVars, seqVars, selectedTrainType, disabled, uploads, crawling, progressTimer, intervals>>

\* the click handler renderFileList gives each row's remove button (lines 1018-1026)
RemoveFile(i) ==
  /\ i \in 1..Len(selectedFiles)
  /\ selectedFiles' = RemoveAt(selectedFiles, i)
  /\ UNCHANGED <<auxVars, seqVars, selectedTrainType, disabled, uploads, crawling, progressTimer, intervals>>

\* the click handler of clearBtn (lines 1418-1421) with clearFiles (1265-1274);
\* a disabled button fires no click
ClearClick ==
  /\ ~disabled
  /\ selectedFiles' = <<>>
  /\ UNCHANGED <<auxVars, seqVars, selectedTrainType, disabled, uploads, crawling, progressTimer, intervals>>

\* the click handler of a dropdown item (lines 1428-1438)
TrainTypeClick(t) ==
  /\ selectedTrainType' = t
  /\ UNCHANGED <<auxVars, seqVars, selectedFiles, disabled, uploads, crawling, progressTimer, intervals>>

\* a click handler that does not look at the training type
TypeNeverMissing == FALSE

\* if (!selectedTrainType) (line 1410)
TypeMissing == selectedTrainType = ""

\* if (!selectedFiles.length) (line 1299)
NoFiles == selectedFiles = <<>>

\* the click handler of uploadBtn (lines 1406-1416) with uploadAndIngest up
\* to await fetch (lines 1298-1320)
UploadClick ==
  /\ ~disabled
  /\ ~TypeMissing
  /\ ~NoFiles
  /\ overlayRunId + 2 <= MaxRunId
  /\ disabled' = TRUE
  /\ LET st == OverlayShown(Len(selectedFiles)) IN
       /\ overlayRunId' = st.id
       /\ processingLines' = st.d.L
       /\ processingSub' = st.d.S
       /\ runs' = st.runs
       /\ progressTimer' = st.id
       /\ intervals' = (intervals \ {progressTimer}) \cup {st.id}
       /\ uploads' = Append(uploads, [pc |-> "fetch", rid |-> st.id, sent |-> selectedFiles,
                                      train_type |-> selectedTrainType])
  /\ overlayHidden' = FALSE
  /\ UNCHANGED <<auxVars, container, selectedFiles, selectedTrainType, crawling>>

\* the click handler of uploadBtn when it starts no upload: no training
\* type (lines 1410-1413) or no file (lines 1299-1303)
UploadBlocked ==
  /\ ~disabled
  /\ TypeMissing \/ NoFiles
  /\ UNCHANGED vars

\* stopSimulatedProgress that forgets the timer without clearing it
StopWithoutClear ==
  /\ intervals' = intervals
  /\ progressTimer' = 0

\* stopSimulatedProgress (lines 1292-1296)
StopSimulatedProgress ==
  /\ intervals' = intervals \ {progressTimer}
  /\ progressTimer' = 0

\* uploadAndIngest resumed with an OK response (lines 1320-1341), up to the
\* first sleep of showProcessingSuccess
FetchOk(n) ==
  /\ n \in 1..Len(uploads)
  /\ uploads[n].pc = "fetch"
  /\ StopSimulatedProgress
  /\ LET st == SuccessShown IN
       /\ overlayRunId' = st.id
       /\ processingLines' = st.d.L
       /\ processingSub' = st.d.S
       /\ overlayHidden' = st.hidden
       /\ runs' = st.runs
       /\ uploads' = IF st.ret THEN RemoveAt(uploads, n)
                     ELSE [uploads EXCEPT ![n].pc = "succ", ![n].rid = st.id]
       /\ disabled' = IF st.ret THEN FALSE ELSE disabled
  /\ UNCHANGED <<auxVars, container, selectedFiles, selectedTrainType, crawling>>

\* uploadAndIngest resumed with a non-OK response or an exception of fetch,
\* res.json() or res.text(): catch (lines 1342-1348) and finally (1349-1351)
FetchFail(n) ==
  /\ n \in 1..Len(uploads)
  /\ uploads[n].pc = "fetch"
  /\ StopSimulatedProgress
  /\ LET st == Hidden([id |-> overlayRunId, d |-> Dom, runs |-> runs]) IN
       /\ overlayRunId' = st.id
       /\ processingLines' = st.d.L
       /\ processingSub' = st.d.S
       /\ overlayHidden' = st.hidden
  /\ uploads' = RemoveAt(uploads, n)
  /\ disabled' = FALSE
  /\ UNCHANGED <<auxVars, container, runs, selectedFiles, selectedTrainType, crawling>>

\* the click handler of chatConfirmYesBtn with runCrawl up to await fetch
\* (lines 1477-1483, 1355-1364); any number of calls may be in flight
CrawlClick ==
  /\ crawling' = TRUE
  /\ disabled' = TRUE
  /\ UNCHANGED <<auxVars, seqVars, selectedFiles, selectedTrainType, uploads, progressTimer, intervals>>

\* one runCrawl call resumed, with any outcome: finally (lines 1391-1393);
\* it may or may not have been the last one in flight
CrawlDone ==
  /\ crawling
  /\ crawling' \in BOOLEAN
  /\ disabled' = FALSE
  /\ UNCHANGED <<auxVars, seqVars, selectedFiles, selectedTrainType, uploads, progressTimer, intervals>>

(***************************************************************************)
(* The click listeners of the dropzone and of the file input.  #dropzone   *)
(* and #fileInput are taken to exist; whether the input lies inside the    *)
(* dropzone depends on the page.                                           *)
(***************************************************************************)
\* bindEvents without its guard
NeverBound == FALSE

\* if (eventsBound) return (line 1401)
AlreadyBound == eventsBound

\* bindEvents() (lines 1400-1485): on(dropzone, "click", ...) of line 1440 and
\* on(fileInput, "click", ...) of line 1445 each add one listener
BindEvents ==
  /\ eventsBound' = TRUE
  /\ clickListeners' = IF AlreadyBound THEN clickListeners
                       ELSE [dropzone |-> clickListeners.dropzone + 1,
                             fileInput |-> clickListeners.fileInput + 1]
  /\ UNCHANGED <<seqVars, pageVars, inputInDropzone, userClicks, pickerCalls, probe>>

\* if (e.target === fileInput || fileInput?.contains(e.target)) return (line 1441)
FromFileInput(target) == target = "fileInput"

\* The calls of fileInput.click() one run of the dropzone listener makes for
\* a click on the file input that has bubbled up to it (lines 1440-1443).
BubbledCalls == IF FromFileInput("fileInput") THEN 0 ELSE 1

\* The calls of fileInput.click() during the dispatch of one click whose
\* target is the file input: its own listeners call e.stopPropagation()
\* (line 1445), otherwise the event bubbles to the listeners of the dropzone
\* when the input lies inside it.
InputClickCalls ==
  IF clickListeners.fileInput > 0 \/ ~inputInDropzone THEN 0
  ELSE clickListeners.dropzone * BubbledCalls

\* The calls of fileInput.click() during the dispatch of one click whose
\* target is the dropzone: every listener calls it once (line 1442), and the
\* call dispatches a synthetic click on the file input before it returns.
DropzoneClickCalls ==
  IF FromFileInput("dropzone") THEN 0
  ELSE clickListeners.dropzone * (1 + InputClickCalls)

\* the user clicks on the dropzone, outside the file input
DropzoneClick ==
  /\ userClicks < MaxClicks
  /\ userClicks' = userClicks + 1
  /\ pickerCalls' = pickerCalls + DropzoneClickCalls
  /\ UNCHANGED <<seqVars, pageVars, eventsBound, clickListeners, inputInDropzone, probe>>

\* the user clicks on the file input itself
FileInputClick ==
  /\ userClicks < MaxClicks
  /\ userClicks' = userClicks + 1
  /\ pickerCalls' = pickerCalls + InputClickCalls
  /\ UNCHANGED <<seqVars, pageVars, eventsBound, clickListeners, inputInDropzone, probe>>

(***************************************************************************)
(* The pacing of runOverlaySequence, computed on its own.                  *)
(***************************************************************************)
\* the count hints whose gap is computed: files.length of an upload
FileCounts == 0..MaxFiles

\* no call made
NoProbe == [filesCount |-> 1, done |-> FALSE, gapMs |-> 0]

\* lines 1115-1116 of runOverlaySequence(filesCount)
ComputeGap ==
  /\ ~probe.done
  /\ probe' = [probe EXCEPT !.done = TRUE, !.gapMs = GapMs(probe.filesCount)]
  /\ UNCHANGED <<seqVars, pageVars, bindVars>>


\* the characters typewriterLine is given: those of OVERLAY_LINES and of the
\* completion message, and the punctuation it tests for
TypedChars ==
  {"a", "b", "c", "d", "e", "f", "g", "h", "i", "j", "k", "l", "m", "n", "o", "p",
   "q", "r", "s", "t", "u", "v", "w", "x", "y", "z", "A", "B", "C", "D", "F", "I",
   "N", "O", "P", "T", " ", "'", "-", ".", "!", "?", ",", ";", ":"}

\* lines 1115-1116 of runOverlaySequence for the hint of the probe
ComputeHintGap ==
  /\ probe.fn = "gap" /\ ~probe.done
  /\ probe' = [probe EXCEPT !.done = TRUE, !.out = GapOfHint(probe.hint)]
  /\ UNCHANGED <<seqVars, pageVars, bindVars>>

\* lines 1097-1099 of typewriterLine for the character of the probe
ComputeCharDelay ==
  /\ probe.fn = "delay" /\ ~probe.done
  /\ probe' = [probe EXCEPT !.done = TRUE, !.ms = CharDelay(probe.ch)]
  /\ UNCHANGED <<seqVars, pageVars, bindVars>>

(***************************************************************************)
(* Specifications.                                                         *)
(***************************************************************************)
\* bindEvents() has been called once by init() (line 1600); no click yet
BoundByInit ==
  /\ eventsBound = TRUE
  /\ clickListeners = [dropzone |-> 1, fileInput |-> 1]
  /\ inputInDropzone = TRUE
  /\ userClicks = 0
  /\ pickerCalls = 0

\* The page after init() (lines 1589-1602); the container is whichever of
\* #processingLines and #processingSub the page has.
PageInit ==
  /\ overlayRunId = 0
  /\ overlayHidden = TRUE
  /\ container \in {"lines", "sub", "none"}
  /\ processingLines = <<>>
  /\ processingSub = <<>>
  /\ runs = <<>>
  /\ selectedFiles = <<>>
  /\ selectedTrainType = ""
  /\ disabled = FALSE
  /\ uploads = <<>>
  /\ crawling = FALSE
  /\ progressTimer = 0
  /\ intervals = {}
  /\ BoundByInit
  /\ probe = NoProbe

\* The sequencer before any call, on a page where the user may already have
\* chosen a file and a training type.
Init ==
  /\ overlayRunId = 0
  /\ overlayHidden = TRUE
  /\ container \in {"lines", "sub", "none"}
  /\ processingLines = <<>>
  /\ processingSub = <<>>
  /\ runs = <<>>
  /\ \/ selectedFiles = <<>> /\ selectedTrainType = ""
     \/ selectedFiles = <<FileA>> /\ selectedTrainType = "herbal"
  /\ disabled = FALSE
  /\ uploads = <<>>
  /\ crawling = FALSE
  /\ progressTimer = 0
  /\ intervals = {}
  /\ BoundByInit
  /\ probe = NoProbe

Timers ==
  \E j \in 1..Len(runs): CharTimer(j) \/ GapTimer(j) \/ FadeTimer(j) \/ SettleTimer(j)

\* The sequencer under any sequence of calls of its three entry points.
Next ==
  \/ \E c \in CountHints: ShowProcessingOverlay(c)
  \/ ShowProcessingSuccess
  \/ HideProcessingOverlay
  \/ Timers

Spec == Init /\ [][Next]_vars

\* The page: the handlers of bindEvents, the responses of the server and the timers.
PageNext ==
  \/ \E fl \in FileLists: AddFiles(fl)
  \/ \E i \in 1..Len(selectedFiles): RemoveFile(i)
  \/ ClearClick
  \/ \E t \in TrainTypes: TrainTypeClick(t)
  \/ UploadClick
  \/ UploadBlocked
  \/ \E n \in 1..Len(uploads): FetchOk(n) \/ FetchFail(n)
  \/ CrawlClick
  \/ CrawlDone
  \/ Timers

PageSpec == PageInit /\ [][PageNext]_vars

\* The page with #processingLines, no crawl: the user picks, drops and
\* removes files of a larger choice before, during and after an upload.
FilesInit == PageInit /\ container = "lines"

FilesNext ==
  \/ \E fl \in DropLists: AddFiles(fl)
  \/ \E i \in 1..Len(selectedFiles): RemoveFile(i)
  \/ ClearClick
  \/ \E t \in TrainTypes: TrainTypeClick(t)
  \/ UploadClick
  \/ \E n \in 1..Len(uploads): FetchOk(n) \/ FetchFail(n)
  \/ Timers

FilesSpec == FilesInit /\ [][FilesNext]_vars

\* the pending timer of the invocation with run identity r fires
TimerOf(r) ==
  \E j \in 1..Len(runs):
    /\ runs[j].runId = r
    /\ (CharTimer(j) \/ GapTimer(j) \/ FadeTimer(j) \/ SettleTimer(j))

\* The sequencer with timers that fire: a callback given to setTimeout (line
\* 849) runs once its delay has passed, whatever else the page is doing.
LiveSpec == Spec /\ \A r \in 1..MaxRunId: WF_vars(TimerOf(r))

\* The page before init(), with no upload going on: bindEvents() is called any
\* number of times and the user clicks on the dropzone and on the file input.
BindInit ==
  /\ overlayRunId = 0
  /\ overlayHidden = TRUE
  /\ container = "lines"
  /\ processingLines = <<>>
  /\ processingSub = <<>>
  /\ runs = <<>>
  /\ selectedFiles = <<>>
  /\ selectedTrainType = ""
  /\ disabled = FALSE
  /\ uploads = <<>>
  /\ crawling = FALSE
  /\ progressTimer = 0
  /\ intervals = {}
  /\ eventsBound = FALSE
  /\ clickListeners = [dropzone |-> 0, fileInput |-> 0]
  /\ inputInDropzone \in BOOLEAN
  /\ userClicks = 0
  /\ pickerCalls = 0
  /\ probe = NoProbe

BindNext == BindEvents \/ DropzoneClick \/ FileInputClick

BindSpec == BindInit /\ [][BindNext]_vars

\* runOverlaySequence(filesCount) computes its gap for one count hint.
PacingInit ==
  /\ overlayRunId = 0
  /\ overlayHidden = TRUE
  /\ container = "lines"
  /\ processingLines = <<>>
  /\ processingSub = <<>>
  /\ runs = <<>>
  /\ selectedFiles = <<>>
  /\ selectedTrainType = ""
  /\ disabled = FALSE
  /\ uploads = <<>>
  /\ crawling = FALSE
  /\ progressTimer = 0
  /\ intervals = {}
  /\ BoundByInit
  /\ probe \in {[filesCount |-> c, done |-> FALSE, gapMs |-> 0] : c \in FileCounts}

PacingNext == ComputeGap

\* The two delays of the narration computed for one input: the gap for any
\* count hint, the per-character delay for any character.
TimingInit ==
  /\ overlayRunId = 0
  /\ overlayHidden = TRUE
  /\ container = "lines"
  /\ processingLines = <<>>
  /\ processingSub = <<>>
  /\ runs = <<>>
  /\ selectedFiles = <<>>
  /\ selectedTrainType = ""
  /\ disabled = FALSE
  /\ uploads = <<>>
  /\ crawling = FALSE
  /\ progressTimer = 0
  /\ intervals = {}
  /\ BoundByInit
  /\ \/ probe \in {[fn |-> "gap", hint |-> h, done |-> FALSE, out |-> One] : h \in Hints}
     \/ probe \in {[fn |-> "delay", ch |-> c, done |-> FALSE, ms |-> 0] : c \in TypedChars}

TimingNext == ComputeHintGap \/ ComputeCharDelay

TimingSpec == TimingInit /\ [][TimingNext]_vars

PacingSpec == PacingInit /\ [][PacingNext]_vars

(***************************************************************************)
(* What the claims speak about.                                            *)
(***************************************************************************)
RECURSIVE Concat(_)
Concat(ss) == IF Len(ss) = 0 THEN <<>> ELSE Head(ss) \o Concat(Tail(ss))

\* every child of the narration container's display nodes, in document order
DisplayItems ==
  processingSub \o Concat([j \in 1..Len(processingLines) |-> processingLines[j].kids])

TextItems(items) == SelectSeq(items, LAMBDA it: ~it.caret)
Chars(items) == [n \in 1..Len(TextItems(items)) |-> TextItems(items)[n].c]

\* the characters the container shows
DisplayText == Chars(DisplayItems)

ContainerEmpty == processingLines = <<>> /\ processingSub = <<>>

Active(j) == runs[j].runId = overlayRunId
NoActiveRun == \A j \in 1..Len(runs): ~Active(j)

\* a timer of invocation j fires inside typewriterLine or runOverlaySequence
LineTimer(j) == CharTimer(j) \/ GapTimer(j) \/ FadeTimer(j)

\* invocation j appends a character in this step: it is left sleeping after
\* el.append(s[i])
AppendsChar(j) ==
  /\ LineTimer(j)
  /\ Len(runs') = Len(runs)
  /\ runs'[j].pc = "char"

\* every character on display was typed by the invocation that holds the
\* current run identity
DisplayIsNewest ==
  \A n \in 1..Len(DisplayItems):
    ~DisplayItems[n].caret => DisplayItems[n].by = overlayRunId

\* C1: when start() is called again before an earlier run has finished, no
\* character of a superseded run is appended after that: every step that
\* appends a character is a step of the invocation holding the current run
\* identity, and every character on display was typed by that invocation.
C1_NoStaleCharacter ==
  [][(\A j \in 1..Len(runs): AppendsChar(j) => Active(j)) /\ DisplayIsNewest']_vars

\* a superseded start() run has returned early from typewriterLine and waits
\* in the gap, while the newer start() run goes on typing
C1_Witness ==
  \E i, j \in 1..Len(runs):
    /\ runs[i].kind = "seq" /\ runs[j].kind = "seq"
    /\ runs[i].runId < runs[j].runId /\ Active(j)
    /\ runs[i].pc = "gap" /\ runs[i].i < Len(TextOf(runs[i]))
    /\ runs[j].pc = "char" /\ runs[j].i = Len(TextOf(runs[j]))

\* C2: once a run's captured identity differs from overlayRunId, the run
\* mutates the narration container no more when it resumes from the fade
\* wait, a per-character wait or the gap wait.
C2_StaleRunMutatesNothing ==
  [][\A j \in 1..Len(runs):
       (LineTimer(j) /\ ~Active(j)) =>
         (processingLines' = processingLines /\ processingSub' = processingSub)]_vars

\* hideProcessingOverlay() returns in this step: called by the client, at the
\* end of showProcessingSuccess, or at its line 1167
HideReturns ==
  \/ HideProcessingOverlay
  \/ \E j \in 1..Len(runs): SettleTimer(j)
  \/ ShowProcessingSuccess /\ container = "none"

\* C3: right after hideProcessingOverlay() returns, whatever was going on,
\* the narration container is empty and the overlay is marked hidden.
C3_HideEmptiesAndHides ==
  [][HideReturns => (ContainerEmpty' /\ overlayHidden')]_vars

\* hide() was called while a start() run was typing: the run is still in
\* flight, one identity behind, and nothing is shown
C3_Witness ==
  /\ overlayHidden /\ ContainerEmpty /\ NoActiveRun
  /\ \E j \in 1..Len(runs):
       /\ runs[j].kind = "seq" /\ runs[j].pc = "char"
       /\ overlayRunId = runs[j].runId + 1

\* C4: after hideProcessingOverlay(), and as long as no start() or succeed()
\* is invoked, the container stays empty and the overlay hidden while the
\* timers of earlier invocations fire.
C4_StaysHiddenAndEmpty ==
  [][(overlayHidden /\ ContainerEmpty /\ NoActiveRun /\ Timers)
       => (ContainerEmpty' /\ overlayHidden')]_vars

\* the element invocation j types into holds exactly the first n characters
\* of its text, typed by j, followed by the caret iff it is still typing
Revealed(j, node, n, typing) ==
  LET kids == IF container = "sub" THEN processingSub
              ELSE LET hit == SelectSeq(processingLines,
                                        LAMBDA x: IsNodeOf(x, runs[j].runId, node))
                   IN IF Len(hit) = 1 THEN hit[1].kids ELSE <<[c |-> "?", by |-> 0, k |-> 0, caret |-> FALSE]>>
      text == OVERLAY_LINES[node]
  IN /\ Chars(kids) = SubSeq(text, 1, n)
     /\ \A m \in 1..Len(kids): kids[m].by = runs[j].runId
     /\ Len(kids) = n + (IF typing THEN 1 ELSE 0)
     /\ typing => kids[Len(kids)].caret

\* where an unsuperseded start() run stands, and what its display node holds
RunOnTrack(j) ==
  /\ runs[j].k \in 1..Len(OVERLAY_LINES)
  /\ runs[j].pc \in {"char", "gap", "fade"}
  /\ runs[j].pc = "char" =>
       /\ runs[j].i \in 1..Len(OVERLAY_LINES[runs[j].k])
       /\ Revealed(j, runs[j].k, runs[j].i, TRUE)
  /\ runs[j].pc = "gap" =>
       /\ runs[j].i = Len(OVERLAY_LINES[runs[j].k])
       /\ Revealed(j, runs[j].k, runs[j].i, FALSE)
  /\ runs[j].pc = "fade" =>
       /\ runs[j].k > 1 /\ container = "lines"
       /\ Revealed(j, runs[j].k - 1, Len(OVERLAY_LINES[runs[j].k - 1]), FALSE)

\* a step of an unsuperseded start() run: the next character of the same
\* line, the next line after a fully revealed one, or the end after line N
RunAdvances(j) ==
  IF Len(runs') < Len(runs)
  THEN runs[j].pc = "gap" /\ runs[j].k = Len(OVERLAY_LINES)
  ELSE /\ runs'[j].runId = runs[j].runId
       /\ \/ /\ runs[j].pc = "char" /\ runs'[j].k = runs[j].k
             /\ \/ runs'[j].pc = "char" /\ runs'[j].i = runs[j].i + 1
                \/ runs'[j].pc = "gap" /\ runs'[j].i = runs[j].i
          \/ /\ runs[j].pc = "gap" /\ runs'[j].k = runs[j].k + 1
             /\ \/ runs'[j].pc = "fade" /\ container = "lines"
                \/ runs'[j].pc = "char" /\ runs'[j].i = 1 /\ container = "sub"
          \/ /\ runs[j].pc = "fade" /\ runs'[j].k = runs[j].k
             /\ runs'[j].pc = "char" /\ runs'[j].i = 1

\* C5: with no cancel, hide, start or succeed during the run, one start()
\* reveals the N lines of the queue in order, each once, and each display
\* node holds exactly the characters of its line before the next line begins.
C5_RevealsEveryLineInOrder ==
  /\ [](\A j \in 1..Len(runs): (runs[j].kind = "seq" /\ Active(j)) => RunOnTrack(j))
  /\ [][\A j \in 1..Len(runs):
          (runs[j].kind = "seq" /\ Active(j) /\ LineTimer(j)) => RunAdvances(j)]_vars

\* the only invocation in flight is a start() run that has revealed the last
\* line of the queue in full
C5_Witness ==
  /\ Len(runs) = 1
  /\ runs[1].kind = "seq" /\ Active(1)
  /\ runs[1].pc = "gap" /\ runs[1].k = Len(OVERLAY_LINES) /\ runs[1].k > 1
  /\ DisplayText = OVERLAY_LINES[runs[1].k]

\* where an unsuperseded succeed() stands, and what the container shows
SuccOnTrack(j) ==
  /\ runs[j].pc \in {"char", "settle"}
  /\ runs[j].i \in 1..Len(SUCCESS_MSG)
  /\ runs[j].pc = "settle" => runs[j].i = Len(SUCCESS_MSG)
  /\ DisplayText = SubSeq(SUCCESS_MSG, 1, runs[j].i)
  /\ DisplayIsNewest

\* succeed() call j was made while the start() run with the identity just
\* before its own had not finished
SupersededARun(j) ==
  \E i \in 1..Len(runs): runs[i].kind = "seq" /\ runs[i].runId + 1 = runs[j].runId

\* C6 as claimed: a succeed() called while a start() run is active ends with
\* the one final message revealed completely before the overlay is hidden.
C6_AlwaysRevealsMessage ==
  [][\A j \in 1..Len(runs):
       (SettleTimer(j) /\ SupersededARun(j)) =>
         (DisplayText = SUCCESS_MSG /\ ~overlayHidden)]_vars

\* C6 (amended): a succeed() called while a start() run is active supersedes
\* it at once, and, as long as its own run identity stays the current one
\* (no start(), hide() or succeed() call and no end of an earlier succeed()
\* in between), reveals exactly one final message completely, character by
\* character, the overlay staying visible until the settle delay has passed
\* and being hidden then.
C6_RevealsMessageUnlessSuperseded ==
  /\ [](\A j \in 1..Len(runs): (runs[j].kind = "succ" /\ Active(j)) => SuccOnTrack(j))
  /\ [][/\ (ShowProcessingSuccess /\ \E i \in 1..Len(runs): runs[i].kind = "seq" /\ Active(i))
             => /\ ~overlayHidden'
                /\ \A i \in 1..Len(runs): runs[i].runId # overlayRunId'
                /\ \E n \in 1..Len(runs'): runs'[n].kind = "succ" /\ runs'[n].runId = overlayRunId'
        /\ \A j \in 1..Len(runs):
             (runs[j].kind = "succ" /\ Active(j) /\ CharTimer(j))
               => /\ overlayHidden' = overlayHidden
                  /\ \/ runs'[j].pc = "char" /\ runs'[j].i = runs[j].i + 1
                     \/ runs'[j].pc = "settle" /\ runs'[j].i = runs[j].i
        /\ \A j \in 1..Len(runs):
             (runs[j].kind = "succ" /\ Active(j) /\ SettleTimer(j))
               => (DisplayText = SUCCESS_MSG /\ overlayHidden')]_vars

\* succeed() superseded a start() run that is still in flight, has revealed
\* its message in full and waits out the settle delay with the overlay visible
C6_Witness ==
  \E j \in 1..Len(runs):
    /\ runs[j].kind = "succ" /\ Active(j) /\ runs[j].pc = "settle"
    /\ SupersededARun(j)
    /\ DisplayText = SUCCESS_MSG
    /\ ~overlayHidden

\* what the invocation holding the current run identity has put on display
NewestOutput == SelectSeq(DisplayItems, LAMBDA it: it.by = overlayRunId)

\* C7: once a newer start() has been issued, no older invocation still in
\* progress cancels the newer run, clears its output or hides the overlay.
C7_NewestStartWins ==
  [][\A i, j \in 1..Len(runs):
       (/\ runs[i].kind = "seq" /\ Active(i)
        /\ runs[j].runId < runs[i].runId
        /\ (LineTimer(j) \/ SettleTimer(j)))
       => /\ overlayRunId' = overlayRunId
          /\ overlayHidden' = overlayHidden
          /\ NewestOutput' = NewestOutput]_vars

\* C8: at most one in-flight invocation holds a captured run identity equal
\* to overlayRunId; the captured identities are pairwise different and none
\* is ahead of the counter, so a new sequence leaves every earlier one behind.
C8_AtMostOneActive ==
  /\ Cardinality({j \in 1..Len(runs): Active(j)}) <= 1
  /\ \A i, j \in 1..Len(runs): i # j => runs[i].runId # runs[j].runId
  /\ \A j \in 1..Len(runs): runs[j].runId <= overlayRunId

\* three invocations in flight, the last one holding the current identity
C8_Witness ==
  /\ Len(runs) >= 3
  /\ \E j \in 1..Len(runs): Active(j)
  /\ \E j \in 1..Len(runs): runs[j].kind = "succ"

\* showProcessingSuccess() returns in this step
SuccessReturns ==
  \/ \E j \in 1..Len(runs): SettleTimer(j)
  \/ ShowProcessingSuccess /\ container = "none"

\* C9: every call of succeed() that returns leaves the overlay hidden, the
\* container empty, the selected files empty and the training type reset.
C9_SuccessResetsEverything ==
  [][SuccessReturns =>
       /\ overlayHidden' /\ ContainerEmpty'
       /\ selectedFiles' = <<>>
       /\ selectedTrainType' = ""]_vars

\* C10: whenever uploadAndIngest() finishes after its request (OK response,
\* non-OK response, exception), the overlay is hidden and no overlay run is
\* left active.
C10_UploadEndsHidden ==
  [][Len(uploads') < Len(uploads) =>
       /\ overlayHidden'
       /\ \A j \in 1..Len(runs'): runs'[j].runId # overlayRunId']_vars

\* no upload is in flight any more, the controls are enabled again, and the
\* start() run of the last upload is still in flight, superseded and hidden
C10_Witness ==
  /\ uploads = <<>> /\ ~disabled /\ crawling = FALSE
  /\ overlayHidden /\ NoActiveRun
  /\ \E j \in 1..Len(runs): runs[j].kind = "seq" /\ runs[j].pc \in {"char", "fade"}

\* the invocations that have a node, a character or a caret in the container
OutputOwners ==
  {processingLines[n].owner : n \in 1..Len(processingLines)}
    \cup {DisplayItems[n].by : n \in 1..Len(DisplayItems)}

\* C11: a new run invalidates the previous one before it changes the
\* narration container itself, so the output of two runs is never
\* interleaved: whatever the container holds (nodes, characters, carets) was
\* put there by one invocation.
C11_NoInterleavedOutput == Cardinality(OutputOwners) <= 1

\* C12: in every reachable state #processingLines holds at most one display
\* node.
C12_AtMostOneNode == Len(processingLines) <= 1

\* C13: overlayRunId never decreases, and every start() that finds a
\* container, every cancel()/hide() (also the one that ends succeed()) and
\* every succeed() strictly increases it.
C13_RunIdentityGrows ==
  [][/\ overlayRunId' >= overlayRunId
     /\ ((\E c \in CountHints: ShowProcessingOverlay(c)) /\ container # "none")
          => overlayRunId' > overlayRunId
     /\ HideProcessingOverlay => overlayRunId' > overlayRunId
     /\ (\E j \in 1..Len(runs): SettleTimer(j)) => overlayRunId' > overlayRunId
     /\ ShowProcessingSuccess => overlayRunId' > overlayRunId]_vars

\* a start() run is in flight, and calls made after it have moved the
\* counter two or more past its identity
C13_Witness ==
  \E j \in 1..Len(runs):
    /\ runs[j].kind = "seq" /\ container # "none"
    /\ overlayRunId >= runs[j].runId + 2

\* the sequencer state hideProcessingOverlay() works on
SeqState == [id |-> overlayRunId, d |-> Dom, runs |-> runs]

\* hideProcessingOverlay() called twice in a row
HiddenTwice(st) ==
  LET h == Hidden(st) IN Hidden([id |-> h.id, d |-> h.d, runs |-> h.runs])

\* C14: hide() is idempotent: from every state two calls in a row leave the
\* container and the overlay as one call does; a call made when the overlay
\* is already hidden and empty, or when no run is active, leaves them hidden
\* and empty and touches no invocation; and the call is always possible.
C14_HideIsIdempotent ==
  /\ [](/\ HiddenTwice(SeqState).d = Hidden(SeqState).d
        /\ HiddenTwice(SeqState).hidden = Hidden(SeqState).hidden
        /\ HiddenTwice(SeqState).runs = Hidden(SeqState).runs)
  /\ [](overlayRunId + 1 <= MaxRunId => ENABLED HideProcessingOverlay)
  /\ [][(HideProcessingOverlay /\ ((overlayHidden /\ ContainerEmpty) \/ NoActiveRun))
          => (overlayHidden' /\ ContainerEmpty' /\ runs' = runs)]_vars

\* hide() has been called twice in a row on a fresh page: the only way to
\* identity 2 that leaves the selected file in place and starts no run
C14_Witness ==
  /\ overlayRunId = 2 /\ runs = <<>> /\ container = "lines"
  /\ overlayHidden /\ ContainerEmpty
  /\ selectedFiles # <<>>

\* C15: for every count hint >= 1 the inter-line gap is min(maximum gap,
\* base gap * count): the base gap for count = 1, base gap * count as long as
\* that product does not exceed the maximum, and 1200 ms from there on.
C15_GapIsLinearAndCapped ==
  (probe.done /\ probe.filesCount >= 1) =>
    /\ probe.gapMs = (IF LINE_GAP_BASE_MS * probe.filesCount <= MAX_GAP_MS
                      THEN LINE_GAP_BASE_MS * probe.filesCount ELSE MAX_GAP_MS)
    /\ probe.filesCount = 1 => probe.gapMs = LINE_GAP_BASE_MS
    /\ probe.gapMs <= 1200
    /\ probe.gapMs >= LINE_GAP_BASE_MS

\* the gap has been computed for the first count hint that reaches the
\* maximum: 6 * 210 ms would be 1260 ms
C15_Witness ==
  /\ probe.done
  /\ probe.filesCount = 6
  /\ probe.gapMs = 1200

\* C16: when the page has no narration container, start() is a no-op: the
\* run identity, the visibility of the overlay, the containers and the set
\* of invocations in flight are as before.
C16_StartWithoutContainerIsNoOp ==
  [][((\E c \in CountHints: ShowProcessingOverlay(c)) /\ container = "none")
       => UNCHANGED <<overlayRunId, overlayHidden, processingLines, processingSub, runs>>]_vars

\* C17: after any number of bindEvents() calls each element has one click
\* listener; one click of the user on the dropzone makes exactly one call of
\* fileInput.click(), the synthetic click of that call included, and a click
\* on the file input itself makes none.
C17_PickerOpensOnce ==
  /\ [](eventsBound => clickListeners = [dropzone |-> 1, fileInput |-> 1])
  /\ [][eventsBound =>
          /\ DropzoneClick => pickerCalls' = pickerCalls + 1
          /\ FileInputClick => pickerCalls' = pickerCalls]_vars

\* on a page whose file input lies inside the dropzone, the user has clicked
\* the dropzone twice and the file input once after bindEvents()
C17_Witness ==
  /\ eventsBound /\ inputInDropzone
  /\ userClicks = 3
  /\ pickerCalls = 2

HasNode(L, r, k) == \E n \in 1..Len(L): IsNodeOf(L[n], r, k)

\* line k of run r stands fully revealed, with no caret: in its own display
\* node, which is not marked for removal, or in the legacy container
LineShown(L, S, r, k) ==
  LET full(kids) == /\ Chars(kids) = OVERLAY_LINES[k]
                    /\ \A m \in 1..Len(kids): ~kids[m].caret /\ kids[m].by = r
  IN IF container = "sub" THEN full(S)
     ELSE \E n \in 1..Len(L): IsNodeOf(L[n], r, k) /\ ~L[n].hide /\ full(L[n].kids)

\* C18: within one uncancelled run on #processingLines, before every line
\* after the first the previous display node is marked with the class hide
\* and left in place while the run waits LINE_FADE_MS, and it is removed
\* before the node of the next line is inserted; the node of the first line
\* is inserted by start() itself with no fade wait.
C18_FadeBetweenLines ==
  [][/\ \A j \in 1..Len(runs):
          (runs[j].kind = "seq" /\ Active(j) /\ container = "lines") =>
            /\ (GapTimer(j) /\ runs[j].k < Len(OVERLAY_LINES)) =>
                 /\ runs'[j].pc = "fade" /\ runs'[j].ms = LINE_FADE_MS
                 /\ \E n \in 1..Len(processingLines'):
                      /\ IsNodeOf(processingLines'[n], runs[j].runId, runs[j].k)
                      /\ processingLines'[n].hide
                 /\ ~HasNode(processingLines', runs[j].runId, runs[j].k + 1)
            /\ FadeTimer(j) =>
                 /\ runs[j].k > 1
                 /\ HasNode(processingLines, runs[j].runId, runs[j].k - 1)
                 /\ ~HasNode(processingLines', runs[j].runId, runs[j].k - 1)
                 /\ HasNode(processingLines', runs[j].runId, runs[j].k)
                 /\ runs'[j].pc = "char"
     /\ ((\E c \in CountHints: ShowProcessingOverlay(c)) /\ container = "lines") =>
          /\ Len(runs') = Len(runs) + 1
          /\ runs'[Len(runs')].pc = "char" /\ runs'[Len(runs')].k = 1
          /\ Len(processingLines') = 1
          /\ IsNodeOf(processingLines'[1], overlayRunId', 1)]_vars

\* an uncancelled run types line 2 into its node, the node of line 1 gone
C18_Witness ==
  \E j \in 1..Len(runs):
    /\ runs[j].kind = "seq" /\ Active(j) /\ container = "lines"
    /\ runs[j].pc = "char" /\ runs[j].k = 2
    /\ HasNode(processingLines, runs[j].runId, 2)
    /\ ~HasNode(processingLines, runs[j].runId, 1)

\* C19: when a run ends by exhausting the queue without having been
\* superseded, nothing else happens: no succeed() is started, the overlay is
\* still visible, the last line stands fully revealed, overlayRunId is still
\* the identity of the run, and the selected files and the training type are
\* as before.
C19_CompletionLeavesLastLine ==
  [][\A j \in 1..Len(runs):
       (runs[j].kind = "seq" /\ Active(j) /\ GapTimer(j) /\ Len(runs') < Len(runs)) =>
         /\ runs[j].k = Len(OVERLAY_LINES)
         /\ runs' = RemoveAt(runs, j)
         /\ ~overlayHidden'
         /\ overlayRunId' = runs[j].runId
         /\ LineShown(processingLines', processingSub', runs[j].runId, Len(OVERLAY_LINES))
         /\ selectedFiles' = selectedFiles
         /\ selectedTrainType' = selectedTrainType]_vars

\* one start() has run to its end with nothing else called: the overlay is
\* visible and shows the last line, the chosen file is still selected
C19_Witness ==
  /\ runs = <<>> /\ overlayRunId = 2
  /\ ~overlayHidden
  /\ LineShown(processingLines, processingSub, 2, Len(OVERLAY_LINES))
  /\ selectedFiles # <<>>

InFlight(r) == \E j \in 1..Len(runs): runs[j].runId = r

\* C20: when timers fire, every invocation of start() and of succeed() ends,
\* whatever calls are made meanwhile; a start() run ends at the end of a gap
\* wait, either after its last line or because it finds itself superseded.
C20_EveryInvocationEnds ==
  /\ \A r \in 1..MaxRunId: InFlight(r) ~> ~InFlight(r)
  /\ [][\A j \in 1..Len(runs):
          (runs[j].kind = "seq" /\ LineTimer(j) /\ Len(runs') < Len(runs)) =>
            /\ runs[j].pc = "gap"
            /\ (runs[j].k = Len(OVERLAY_LINES) \/ ~Active(j))]_vars

\* a start() run was superseded by a second start(), and both have ended
C20_Witness ==
  /\ runs = <<>> /\ overlayRunId = 4
  /\ ~overlayHidden /\ container # "none"
  /\ selectedFiles # <<>>

\* C21: a superseded start() run ends at its next check point and starts no
\* further sleep: the timer step in which it finds its identity stale (in the
\* typewriter loop or at the top of the line loop) is its last step.
C21_SupersededRunSleepsNoMore ==
  [][\A j \in 1..Len(runs):
       (runs[j].kind = "seq" /\ ~Active(j) /\ LineTimer(j)) => runs' = RemoveAt(runs, j)]_vars

\* typewriterLine returns to invocation j in this step
TypewriterReturns(j) ==
  /\ CharTimer(j) \/ FadeTimer(j)
  /\ Len(runs') = Len(runs)
  /\ runs'[j].pc \in {"gap", "settle"}

\* the children, after the step, of the element invocation j types into
TypedKids(j) ==
  IF container = "sub" THEN processingSub'
  ELSE Concat([n \in 1..Len(processingLines') |->
                 IF IsNodeOf(processingLines'[n], runs'[j].runId, runs'[j].k)
                 THEN processingLines'[n].kids ELSE <<>>])

\* C22: after every character append the caret is the last child of the
\* display node and the only caret in it, and whenever typewriterLine
\* returns the caret is no longer inside the node.
C22_CaretTrailsAndLeaves ==
  [][\A j \in 1..Len(runs):
       /\ AppendsChar(j) =>
            /\ Len(TypedKids(j)) = runs'[j].i + 1
            /\ IsCaretOf(TypedKids(j)[Len(TypedKids(j))], runs'[j])
            /\ \A m \in 1..(Len(TypedKids(j)) - 1): ~TypedKids(j)[m].caret
       /\ TypewriterReturns(j) =>
            \A m \in 1..Len(TypedKids(j)): ~IsCaretOf(TypedKids(j)[m], runs'[j])]_vars

\* the probe holds the delay computed for a character
DelayKnown == probe.fn = "delay" /\ probe.done

\* C23 as claimed: the delay after a character is LINE_TYPE_SPEED_MS, and
\* a fixed multiple of it more exactly when the character is '.', '!' or '?'.
C23_ExtraForSentenceEndOnly ==
  DelayKnown =>
    probe.ms = LINE_TYPE_SPEED_MS
                 + (IF probe.ch \in {".", "!", "?"} THEN 3 * LINE_TYPE_SPEED_MS ELSE 0)

\* C23 (amended): the delay after a character is LINE_TYPE_SPEED_MS, and
\* three times LINE_TYPE_SPEED_MS more exactly when the character is '.',
\* '!', '?' or ','; every other character gets the base delay only.
C23_ExtraForPunctuation ==
  DelayKnown =>
    /\ probe.ch \in {".", "!", "?", ","} => probe.ms = 4 * LINE_TYPE_SPEED_MS
    /\ probe.ch \notin {".", "!", "?", ","} => probe.ms = LINE_TYPE_SPEED_MS

\* the delay after a comma has been computed: 240 ms
C23_Witness == DelayKnown /\ probe.ch = "," /\ probe.ms = 240

\* the probe holds the gap computed for a count hint
GapKnown == probe.fn = "gap" /\ probe.done

\* the hint is missing, zero, negative, a fraction below 1 or not a number
BelowOne(h) == h.kind \in {"missing", "nan"} \/ (h.kind = "num" /\ h.n < h.d)

\* C24: for a count hint that is missing, zero, negative, a fraction below 1
\* or not a number the gap is the gap of count = 1, that is LINE_GAP_BASE_MS,
\* and for every hint the gap lies within [LINE_GAP_BASE_MS, 1200].
C24_GapWithinRange ==
  GapKnown =>
    /\ BelowOne(probe.hint) => probe.out = [n |-> LINE_GAP_BASE_MS, d |-> 1]
    /\ probe.hint = One => probe.out = [n |-> LINE_GAP_BASE_MS, d |-> 1]
    /\ probe.out.d >= 1
    /\ probe.out.n >= LINE_GAP_BASE_MS * probe.out.d
    /\ probe.out.n <= 1200 * probe.out.d

\* the gap has been computed for the count hint -1/2
C24_Witness ==
  /\ GapKnown
  /\ probe.hint = [kind |-> "num", n |-> -1, d |-> 2]
  /\ probe.out = [n |-> 210, d |-> 1]

\* C25: while an uploadAndIngest() call is in flight the upload controls are
\* disabled, so at most one such call is in flight at any time.
C25_OneUploadAtATime ==
  /\ uploads # <<>> => disabled
  /\ Len(uploads) <= 1

\* C27: a training request is sent only from a click made while a training
\* type and at least one file are selected, and it carries that type and
\* those files; while either is missing no step sends a request, shows the
\* overlay or disables the controls for an upload.
C27_RequestNeedsTypeAndFiles ==
  [][/\ Len(uploads') > Len(uploads) =>
          /\ selectedTrainType # "" /\ selectedFiles # <<>>
          /\ uploads' = Append(uploads, uploads'[Len(uploads')])
          /\ uploads'[Len(uploads')].sent = selectedFiles
          /\ uploads'[Len(uploads')].train_type = selectedTrainType
     /\ (selectedTrainType = "" \/ selectedFiles = <<>>) =>
          /\ Len(uploads') <= Len(uploads)
          /\ overlayHidden => overlayHidden'
          /\ (~disabled /\ disabled') => crawling']_vars

\* a request with the chosen file and training type is on its way
C27_Witness ==
  /\ Len(uploads) = 1
  /\ uploads[1].pc = "fetch"
  /\ uploads[1].sent = <<FileA>> /\ uploads[1].train_type = "herbal"
  /\ disabled /\ ~overlayHidden

\* C29: at most one simulated-progress interval timer is live, and none is
\* live once every started uploadAndIngest() has finished.
C29_OneProgressTimer ==
  /\ Cardinality(intervals) <= 1
  /\ intervals \subseteq {progressTimer}
  /\ uploads = <<>> => (intervals = {} /\ progressTimer = 0)

\* two uploads are in flight and share the one live interval of the later one
C29_Witness ==
  /\ Len(uploads) = 2
  /\ uploads[1].pc = "fetch" /\ uploads[2].pc = "fetch"
  /\ intervals = {uploads[2].rid}

\* C26: every file that a successful upload removes from selectedFiles was
\* part of the request body of that upload.
C26_ClearedFilesWereSent ==
  [][\A j \in 1..Len(runs): \A n \in 1..Len(uploads):
       (SettleTimer(j) /\ Awaits(uploads[n], runs[j].runId)) =>
         \A i \in 1..Len(selectedFiles):
           \E m \in 1..Len(uploads[n].sent): uploads[n].sent[m] = selectedFiles[i]]_vars

\* C28: selectedFiles never holds two files with the same key (name, size,
\* lastModified), and every file in it satisfies isSupportedFile.
C28_SelectionUniqueAndSupported ==
  /\ \A i, j \in 1..Len(selectedFiles):
       i # j => fileKey(selectedFiles[i]) # fileKey(selectedFiles[j])
  /\ \A i \in 1..Len(selectedFiles): isSupportedFile(selectedFiles[i])

\* after a successful upload has emptied the selection, two files whose keys
\* differ are selected again, the text file first
C28_Witness ==
  /\ overlayRunId >= 4 /\ overlayHidden /\ uploads = <<>>
  /\ Len(selectedFiles) = 2
  /\ selectedFiles[1] = FileB
  /\ selectedFiles[2] = FileA2

====
